---- MODULE Spec2Model ----
(***************************************************************************)
(* VulkanUtilities::VulkanCommandBuffer -- image layout transitions.        *)
(*                                                                         *)
(* PipelineStageFromAccessFlags maps an access mask to the pipeline stages *)
(* that perform those accesses; TransitionImageLayout derives the access   *)
(* masks of an image memory barrier from the old and the new layout and    *)
(* records one vkCmdPipelineBarrier; FlushBarriers is an empty body.       *)
(*                                                                         *)
(* Bit masks are naturals holding the Vulkan bit values; the bitwise       *)
(* operators are computed bit by bit.                                      *)
(***************************************************************************)
EXTENDS Integers, Sequences, FiniteSets, TLC

VARIABLES
    cmds,         \* commands recorded into the command buffer, in recording order
    calls,        \* arguments of every TransitionImageLayout invocation, in call order
    status,       \* "recording", or "aborted" after a fatal assertion
    lastOp,       \* the operation invoked last
    mapperCalls,  \* PipelineStageFromAccessFlags invocations made by the last call
    accA, accB,   \* access masks handed to the stand-alone mapper
    stA, stB, stAB, \* its results for accA, accB and accA | accB
    mphase,       \* "idle" when the mapper is not run on its own, else "input" / "done"
    build         \* what the assertion macros of the build do: "fatal" or "returns"

vars == <<cmds, calls, status, lastOp, mapperCalls, accA, accB, stA, stB, stAB, mphase, build>>

emitterVars == <<cmds, calls, status, lastOp, mapperCalls>>
mapperVars  == <<accA, accB, stA, stB, stAB, mphase>>

-----------------------------------------------------------------------------
(* Bounds *)

\* Calls made on the command buffer when every layout pair is tried.
MaxCmds == 1
\* Calls made on the command buffer in the sequence scenarios.
MaxSeq == 3
\* Access kinds combined in the first / second mask handed to the mapper.
MaxBitsA == 2
MaxBitsB == 1

-----------------------------------------------------------------------------
(* VkAccessFlagBits *)

VK_ACCESS_INDIRECT_COMMAND_READ_BIT == 1
VK_ACCESS_INDEX_READ_BIT == 2
VK_ACCESS_VERTEX_ATTRIBUTE_READ_BIT == 4
VK_ACCESS_UNIFORM_READ_BIT == 8
VK_ACCESS_INPUT_ATTACHMENT_READ_BIT == 16
VK_ACCESS_SHADER_READ_BIT == 32
VK_ACCESS_SHADER_WRITE_BIT == 64
VK_ACCESS_COLOR_ATTACHMENT_READ_BIT == 128
VK_ACCESS_COLOR_ATTACHMENT_WRITE_BIT == 256
VK_ACCESS_DEPTH_STENCIL_ATTACHMENT_READ_BIT == 512
VK_ACCESS_DEPTH_STENCIL_ATTACHMENT_WRITE_BIT == 1024
VK_ACCESS_TRANSFER_READ_BIT == 2048
VK_ACCESS_TRANSFER_WRITE_BIT == 4096
VK_ACCESS_HOST_READ_BIT == 8192
VK_ACCESS_HOST_WRITE_BIT == 16384
VK_ACCESS_MEMORY_READ_BIT == 32768
VK_ACCESS_MEMORY_WRITE_BIT == 65536
\* An access bit outside the seventeen the switch names (the default label).
UNKNOWN_ACCESS_BIT == 131072

(* VkPipelineStageFlagBits *)

VK_PIPELINE_STAGE_TOP_OF_PIPE_BIT == 1
VK_PIPELINE_STAGE_DRAW_INDIRECT_BIT == 2
VK_PIPELINE_STAGE_VERTEX_INPUT_BIT == 4
VK_PIPELINE_STAGE_VERTEX_SHADER_BIT == 8
VK_PIPELINE_STAGE_TESSELLATION_CONTROL_SHADER_BIT == 16
VK_PIPELINE_STAGE_TESSELLATION_EVALUATION_SHADER_BIT == 32
VK_PIPELINE_STAGE_GEOMETRY_SHADER_BIT == 64
VK_PIPELINE_STAGE_FRAGMENT_SHADER_BIT == 128
VK_PIPELINE_STAGE_EARLY_FRAGMENT_TESTS_BIT == 256
VK_PIPELINE_STAGE_LATE_FRAGMENT_TESTS_BIT == 512
VK_PIPELINE_STAGE_COLOR_ATTACHMENT_OUTPUT_BIT == 1024
VK_PIPELINE_STAGE_COMPUTE_SHADER_BIT == 2048
VK_PIPELINE_STAGE_TRANSFER_BIT == 4096
VK_PIPELINE_STAGE_BOTTOM_OF_PIPE_BIT == 8192
VK_PIPELINE_STAGE_HOST_BIT == 16384

(* VkImageLayout *)

VK_IMAGE_LAYOUT_UNDEFINED == 0
VK_IMAGE_LAYOUT_GENERAL == 1
VK_IMAGE_LAYOUT_COLOR_ATTACHMENT_OPTIMAL == 2
VK_IMAGE_LAYOUT_DEPTH_STENCIL_ATTACHMENT_OPTIMAL == 3
VK_IMAGE_LAYOUT_DEPTH_STENCIL_READ_ONLY_OPTIMAL == 4
VK_IMAGE_LAYOUT_SHADER_READ_ONLY_OPTIMAL == 5
VK_IMAGE_LAYOUT_TRANSFER_SRC_OPTIMAL == 6
VK_IMAGE_LAYOUT_TRANSFER_DST_OPTIMAL == 7
VK_IMAGE_LAYOUT_PREINITIALIZED == 8
VK_IMAGE_LAYOUT_DEPTH_READ_ONLY_STENCIL_ATTACHMENT_OPTIMAL == 1000117000
VK_IMAGE_LAYOUT_DEPTH_ATTACHMENT_STENCIL_READ_ONLY_OPTIMAL == 1000117001
VK_IMAGE_LAYOUT_PRESENT_SRC_KHR == 1000001002
\* A layout value neither switch names (the default label).
VK_IMAGE_LAYOUT_SHARED_PRESENT_KHR == 1000111000

(* Handles, aspects and the other values of a barrier *)

VK_NULL_HANDLE == 0
VK_IMAGE_ASPECT_COLOR_BIT == 1
VK_IMAGE_ASPECT_DEPTH_BIT == 2
VK_QUEUE_FAMILY_IGNORED == "VK_QUEUE_FAMILY_IGNORED"
VK_STRUCTURE_TYPE_IMAGE_MEMORY_BARRIER == 45

-----------------------------------------------------------------------------
(* Bitwise operators on naturals *)

RECURSIVE BitOr(_, _)
BitOr(a, b) ==
    IF a = 0 THEN b
    ELSE IF b = 0 THEN a
    ELSE (IF a % 2 = 1 \/ b % 2 = 1 THEN 1 ELSE 0) + 2 * BitOr(a \div 2, b \div 2)

\* a & ~b
RECURSIVE BitAndNot(_, _)
BitAndNot(a, b) ==
    IF a = 0 THEN 0
    ELSE (IF a % 2 = 1 /\ b % 2 = 0 THEN 1 ELSE 0) + 2 * BitAndNot(a \div 2, b \div 2)

-----------------------------------------------------------------------------
(* PipelineStageFromAccessFlags *)

\* UNEXPECTED and VERIFY_EXPR are macros defined outside this file; what they
\* do is fixed by the build.

\* The build the specification describes: a contract violation is fatal and
\* unrecoverable at the point of detection, the run ends at the macro.
FatalBuild == "fatal"

\* The build in which the macros expand to nothing or return: the statement
\* this file puts after the macro runs -- the next turn of the while loop
\* after the default label of the mapper, the break after every UNEXPECTED of
\* the two layout switches, then the stage selection and vkCmdPipelineBarrier.
ReturningBuild == "returns"

AssertionBuilds == {FatalBuild, ReturningBuild}

\* The result of a path ended by UNEXPECTED / a failed VERIFY_EXPR in a build
\* where they are fatal.
ContractViolation == -1

\* The default label of a switch was taken: UNEXPECTED is invoked.
DefaultLabel == -2

\* Mutant: the geometry shader stage is left out of the constant.
ALL_GRAPHICS_SHADER_STAGES_BITS_NoGeometry ==
    BitOr(VK_PIPELINE_STAGE_VERTEX_SHADER_BIT,
    BitOr(VK_PIPELINE_STAGE_TESSELLATION_CONTROL_SHADER_BIT,
    BitOr(VK_PIPELINE_STAGE_TESSELLATION_EVALUATION_SHADER_BIT,
          VK_PIPELINE_STAGE_FRAGMENT_SHADER_BIT)))

ALL_GRAPHICS_SHADER_STAGES_BITS ==
    BitOr(VK_PIPELINE_STAGE_VERTEX_SHADER_BIT,
    BitOr(VK_PIPELINE_STAGE_TESSELLATION_CONTROL_SHADER_BIT,
    BitOr(VK_PIPELINE_STAGE_TESSELLATION_EVALUATION_SHADER_BIT,
    BitOr(VK_PIPELINE_STAGE_GEOMETRY_SHADER_BIT,
          VK_PIPELINE_STAGE_FRAGMENT_SHADER_BIT))))

\* The lowest set bit: AccessFlags & (~(AccessFlags-1)).
LowestAccessFlag(AccessFlags) == BitAndNot(AccessFlags, AccessFlags - 1)

\* The stages one case of the switch ors into Stages; DefaultLabel for the
\* default label, which ors nothing in.
StagesOfAccessFlag(AccessFlag) ==
    CASE AccessFlag = VK_ACCESS_INDIRECT_COMMAND_READ_BIT -> VK_PIPELINE_STAGE_DRAW_INDIRECT_BIT
      [] AccessFlag = VK_ACCESS_INDEX_READ_BIT -> VK_PIPELINE_STAGE_VERTEX_INPUT_BIT
      [] AccessFlag = VK_ACCESS_VERTEX_ATTRIBUTE_READ_BIT -> VK_PIPELINE_STAGE_VERTEX_INPUT_BIT
      [] AccessFlag = VK_ACCESS_UNIFORM_READ_BIT ->
            BitOr(ALL_GRAPHICS_SHADER_STAGES_BITS, VK_PIPELINE_STAGE_COMPUTE_SHADER_BIT)
      [] AccessFlag = VK_ACCESS_INPUT_ATTACHMENT_READ_BIT -> VK_PIPELINE_STAGE_FRAGMENT_SHADER_BIT
      [] AccessFlag = VK_ACCESS_SHADER_READ_BIT ->
            BitOr(ALL_GRAPHICS_SHADER_STAGES_BITS, VK_PIPELINE_STAGE_COMPUTE_SHADER_BIT)
      [] AccessFlag = VK_ACCESS_SHADER_WRITE_BIT ->
            BitOr(ALL_GRAPHICS_SHADER_STAGES_BITS, VK_PIPELINE_STAGE_COMPUTE_SHADER_BIT)
      [] AccessFlag = VK_ACCESS_COLOR_ATTACHMENT_READ_BIT -> VK_PIPELINE_STAGE_COLOR_ATTACHMENT_OUTPUT_BIT
      [] AccessFlag = VK_ACCESS_COLOR_ATTACHMENT_WRITE_BIT -> VK_PIPELINE_STAGE_COLOR_ATTACHMENT_OUTPUT_BIT
      [] AccessFlag = VK_ACCESS_DEPTH_STENCIL_ATTACHMENT_READ_BIT ->
            BitOr(VK_PIPELINE_STAGE_EARLY_FRAGMENT_TESTS_BIT, VK_PIPELINE_STAGE_LATE_FRAGMENT_TESTS_BIT)
      [] AccessFlag = VK_ACCESS_DEPTH_STENCIL_ATTACHMENT_WRITE_BIT ->
            BitOr(VK_PIPELINE_STAGE_EARLY_FRAGMENT_TESTS_BIT, VK_PIPELINE_STAGE_LATE_FRAGMENT_TESTS_BIT)
      [] AccessFlag = VK_ACCESS_TRANSFER_READ_BIT -> VK_PIPELINE_STAGE_TRANSFER_BIT
      [] AccessFlag = VK_ACCESS_TRANSFER_WRITE_BIT -> VK_PIPELINE_STAGE_TRANSFER_BIT
      [] AccessFlag = VK_ACCESS_HOST_READ_BIT -> VK_PIPELINE_STAGE_HOST_BIT
      [] AccessFlag = VK_ACCESS_HOST_WRITE_BIT -> VK_PIPELINE_STAGE_HOST_BIT
      [] AccessFlag = VK_ACCESS_MEMORY_READ_BIT -> 0
      [] AccessFlag = VK_ACCESS_MEMORY_WRITE_BIT -> 0
      [] OTHER -> DefaultLabel

\* Mutant: the loop assigns the stages of a bit (Stages =) instead of
\* or-ing them in (Stages |=).
RECURSIVE StagesLoopAssign(_, _)
StagesLoopAssign(AccessFlags, Stages) ==
    IF AccessFlags = 0 THEN Stages
    ELSE LET AccessFlag == LowestAccessFlag(AccessFlags)
             Contributed == StagesOfAccessFlag(AccessFlag)
         IN  IF Contributed = DefaultLabel
             THEN IF build = FatalBuild
                  THEN ContractViolation
                  ELSE StagesLoopAssign(BitAndNot(AccessFlags, AccessFlag), Stages)
             ELSE StagesLoopAssign(BitAndNot(AccessFlags, AccessFlag), Contributed)

\* The while loop: take the lowest set bit, clear it, or its stages in.  At the
\* default label UNEXPECTED is invoked; when it returns the loop goes on with
\* the remaining bits and Stages as it is.
RECURSIVE StagesLoop(_, _)
StagesLoop(AccessFlags, Stages) ==
    IF AccessFlags = 0 THEN Stages
    ELSE LET AccessFlag == LowestAccessFlag(AccessFlags)
             Contributed == StagesOfAccessFlag(AccessFlag)
         IN  IF Contributed = DefaultLabel
             THEN IF build = FatalBuild
                  THEN ContractViolation
                  ELSE StagesLoop(BitAndNot(AccessFlags, AccessFlag), Stages)
             ELSE StagesLoop(BitAndNot(AccessFlags, AccessFlag), BitOr(Stages, Contributed))

PipelineStageFromAccessFlags(AccessFlags) == StagesLoop(AccessFlags, 0)

-----------------------------------------------------------------------------
(* TransitionImageLayout *)

\* The command buffer handle of the recording context.
CmdBufferHandle == 1
ImageHandle == 1

\* UNEXPECTED(...); break;  The call ends at the macro in the build where it
\* is fatal; in the returning build break leaves the switch with the barrier
\* as it is.
Unexpected(ImgBarrier) == [fatal |-> build = FatalBuild, barrier |-> ImgBarrier]
\* A case that ends in break without UNEXPECTED.
Continue(ImgBarrier) == [fatal |-> FALSE, barrier |-> ImgBarrier]

ZeroSubresourceRange ==
    [aspectMask |-> 0, baseMipLevel |-> 0, levelCount |-> 0,
     baseArrayLayer |-> 0, layerCount |-> 0]

\* Mutant: the two subresourceRange assignments swapped, so that AspectMask is
\* written last and survives.
InitialBarrierAspectLast(Image, AspectMask, OldLayout, NewLayout, SubresRange) ==
    [sType               |-> VK_STRUCTURE_TYPE_IMAGE_MEMORY_BARRIER,
     srcAccessMask       |-> 0,
     dstAccessMask       |-> 0,
     oldLayout           |-> OldLayout,
     newLayout           |-> NewLayout,
     srcQueueFamilyIndex |-> VK_QUEUE_FAMILY_IGNORED,
     dstQueueFamilyIndex |-> VK_QUEUE_FAMILY_IGNORED,
     image               |-> Image,
     subresourceRange    |-> [SubresRange EXCEPT !.aspectMask = AspectMask]]

\* ImgBarrier = {} and the assignments up to subresourceRange: the aspect mask
\* is written first, then the whole range is overwritten by SubresRange.
InitialBarrier(Image, AspectMask, OldLayout, NewLayout, SubresRange) ==
    LET Zeroed == [sType               |-> VK_STRUCTURE_TYPE_IMAGE_MEMORY_BARRIER,
                   srcAccessMask       |-> 0,
                   dstAccessMask       |-> 0,
                   oldLayout           |-> OldLayout,
                   newLayout           |-> NewLayout,
                   srcQueueFamilyIndex |-> VK_QUEUE_FAMILY_IGNORED,
                   dstQueueFamilyIndex |-> VK_QUEUE_FAMILY_IGNORED,
                   image               |-> Image,
                   subresourceRange    |-> ZeroSubresourceRange]
        WithAspect == [Zeroed EXCEPT !.subresourceRange.aspectMask = AspectMask]
    IN  [WithAspect EXCEPT !.subresourceRange = SubresRange]

\* switch (OldLayout)
OldLayoutSwitch(ImgBarrier, OldLayout) ==
    CASE OldLayout = VK_IMAGE_LAYOUT_UNDEFINED -> Continue(ImgBarrier)
      [] OldLayout = VK_IMAGE_LAYOUT_GENERAL -> Unexpected(ImgBarrier)
      [] OldLayout = VK_IMAGE_LAYOUT_COLOR_ATTACHMENT_OPTIMAL ->
            Continue([ImgBarrier EXCEPT !.srcAccessMask = VK_ACCESS_COLOR_ATTACHMENT_WRITE_BIT])
      [] OldLayout = VK_IMAGE_LAYOUT_DEPTH_STENCIL_ATTACHMENT_OPTIMAL ->
            Continue([ImgBarrier EXCEPT !.srcAccessMask = VK_ACCESS_DEPTH_STENCIL_ATTACHMENT_WRITE_BIT])
      [] OldLayout = VK_IMAGE_LAYOUT_DEPTH_STENCIL_READ_ONLY_OPTIMAL ->
            Continue([ImgBarrier EXCEPT !.srcAccessMask = VK_ACCESS_DEPTH_STENCIL_ATTACHMENT_READ_BIT])
      [] OldLayout = VK_IMAGE_LAYOUT_SHADER_READ_ONLY_OPTIMAL ->
            Continue([ImgBarrier EXCEPT !.srcAccessMask = VK_ACCESS_SHADER_READ_BIT])
      [] OldLayout = VK_IMAGE_LAYOUT_TRANSFER_SRC_OPTIMAL ->
            Continue([ImgBarrier EXCEPT !.srcAccessMask = VK_ACCESS_TRANSFER_READ_BIT])
      [] OldLayout = VK_IMAGE_LAYOUT_TRANSFER_DST_OPTIMAL ->
            Continue([ImgBarrier EXCEPT !.srcAccessMask = VK_ACCESS_TRANSFER_WRITE_BIT])
      [] OldLayout = VK_IMAGE_LAYOUT_PREINITIALIZED ->
            Continue([ImgBarrier EXCEPT !.srcAccessMask = VK_ACCESS_HOST_WRITE_BIT])
      [] OldLayout = VK_IMAGE_LAYOUT_DEPTH_READ_ONLY_STENCIL_ATTACHMENT_OPTIMAL ->
            Continue([ImgBarrier EXCEPT !.srcAccessMask = VK_ACCESS_DEPTH_STENCIL_ATTACHMENT_READ_BIT])
      [] OldLayout = VK_IMAGE_LAYOUT_DEPTH_ATTACHMENT_STENCIL_READ_ONLY_OPTIMAL ->
            Continue([ImgBarrier EXCEPT !.srcAccessMask = VK_ACCESS_DEPTH_STENCIL_ATTACHMENT_READ_BIT])
      [] OldLayout = VK_IMAGE_LAYOUT_PRESENT_SRC_KHR ->
            Continue([ImgBarrier EXCEPT !.srcAccessMask = VK_ACCESS_MEMORY_READ_BIT])
      [] OTHER -> Unexpected(ImgBarrier)

\* Mutant: PREINITIALIZED is taken as a destination like any other, with the
\* access mask it has as a source.
NewLayoutSwitchPreinitialized(ImgBarrier, NewLayout) ==
    CASE NewLayout = VK_IMAGE_LAYOUT_UNDEFINED -> Unexpected(ImgBarrier)
      [] NewLayout = VK_IMAGE_LAYOUT_GENERAL -> Unexpected(ImgBarrier)
      [] NewLayout = VK_IMAGE_LAYOUT_COLOR_ATTACHMENT_OPTIMAL ->
            Continue([ImgBarrier EXCEPT !.dstAccessMask = VK_ACCESS_COLOR_ATTACHMENT_WRITE_BIT])
      [] NewLayout = VK_IMAGE_LAYOUT_DEPTH_STENCIL_ATTACHMENT_OPTIMAL ->
            Continue([ImgBarrier EXCEPT !.dstAccessMask = VK_ACCESS_DEPTH_STENCIL_ATTACHMENT_WRITE_BIT])
      [] NewLayout = VK_IMAGE_LAYOUT_DEPTH_STENCIL_READ_ONLY_OPTIMAL ->
            Continue([ImgBarrier EXCEPT !.srcAccessMask = VK_ACCESS_DEPTH_STENCIL_ATTACHMENT_READ_BIT])
      [] NewLayout = VK_IMAGE_LAYOUT_SHADER_READ_ONLY_OPTIMAL ->
            Continue([ImgBarrier EXCEPT !.dstAccessMask =
                        BitOr(VK_ACCESS_SHADER_READ_BIT, VK_ACCESS_INPUT_ATTACHMENT_READ_BIT)])
      [] NewLayout = VK_IMAGE_LAYOUT_TRANSFER_SRC_OPTIMAL ->
            Continue([ImgBarrier EXCEPT !.dstAccessMask = VK_ACCESS_TRANSFER_READ_BIT])
      [] NewLayout = VK_IMAGE_LAYOUT_TRANSFER_DST_OPTIMAL ->
            Continue([ImgBarrier EXCEPT !.dstAccessMask = VK_ACCESS_TRANSFER_WRITE_BIT])
      [] NewLayout = VK_IMAGE_LAYOUT_PREINITIALIZED ->
            Continue([ImgBarrier EXCEPT !.dstAccessMask = VK_ACCESS_HOST_WRITE_BIT])
      [] NewLayout = VK_IMAGE_LAYOUT_DEPTH_READ_ONLY_STENCIL_ATTACHMENT_OPTIMAL ->
            Continue([ImgBarrier EXCEPT !.dstAccessMask = VK_ACCESS_DEPTH_STENCIL_ATTACHMENT_READ_BIT])
      [] NewLayout = VK_IMAGE_LAYOUT_DEPTH_ATTACHMENT_STENCIL_READ_ONLY_OPTIMAL ->
            Continue([ImgBarrier EXCEPT !.dstAccessMask = VK_ACCESS_DEPTH_STENCIL_ATTACHMENT_READ_BIT])
      [] NewLayout = VK_IMAGE_LAYOUT_PRESENT_SRC_KHR ->
            Continue([ImgBarrier EXCEPT !.dstAccessMask = VK_ACCESS_MEMORY_READ_BIT])
      [] OTHER -> Unexpected(ImgBarrier)

\* switch (NewLayout).  The DEPTH_STENCIL_READ_ONLY_OPTIMAL case assigns
\* srcAccessMask, as the source does.
NewLayoutSwitch(ImgBarrier, NewLayout) ==
    CASE NewLayout = VK_IMAGE_LAYOUT_UNDEFINED -> Unexpected(ImgBarrier)
      [] NewLayout = VK_IMAGE_LAYOUT_GENERAL -> Unexpected(ImgBarrier)
      [] NewLayout = VK_IMAGE_LAYOUT_COLOR_ATTACHMENT_OPTIMAL ->
            Continue([ImgBarrier EXCEPT !.dstAccessMask = VK_ACCESS_COLOR_ATTACHMENT_WRITE_BIT])
      [] NewLayout = VK_IMAGE_LAYOUT_DEPTH_STENCIL_ATTACHMENT_OPTIMAL ->
            Continue([ImgBarrier EXCEPT !.dstAccessMask = VK_ACCESS_DEPTH_STENCIL_ATTACHMENT_WRITE_BIT])
      [] NewLayout = VK_IMAGE_LAYOUT_DEPTH_STENCIL_READ_ONLY_OPTIMAL ->
            Continue([ImgBarrier EXCEPT !.srcAccessMask = VK_ACCESS_DEPTH_STENCIL_ATTACHMENT_READ_BIT])
      [] NewLayout = VK_IMAGE_LAYOUT_SHADER_READ_ONLY_OPTIMAL ->
            Continue([ImgBarrier EXCEPT !.dstAccessMask =
                        BitOr(VK_ACCESS_SHADER_READ_BIT, VK_ACCESS_INPUT_ATTACHMENT_READ_BIT)])
      [] NewLayout = VK_IMAGE_LAYOUT_TRANSFER_SRC_OPTIMAL ->
            Continue([ImgBarrier EXCEPT !.dstAccessMask = VK_ACCESS_TRANSFER_READ_BIT])
      [] NewLayout = VK_IMAGE_LAYOUT_TRANSFER_DST_OPTIMAL ->
            Continue([ImgBarrier EXCEPT !.dstAccessMask = VK_ACCESS_TRANSFER_WRITE_BIT])
      [] NewLayout = VK_IMAGE_LAYOUT_PREINITIALIZED -> Unexpected(ImgBarrier)
      [] NewLayout = VK_IMAGE_LAYOUT_DEPTH_READ_ONLY_STENCIL_ATTACHMENT_OPTIMAL ->
            Continue([ImgBarrier EXCEPT !.dstAccessMask = VK_ACCESS_DEPTH_STENCIL_ATTACHMENT_READ_BIT])
      [] NewLayout = VK_IMAGE_LAYOUT_DEPTH_ATTACHMENT_STENCIL_READ_ONLY_OPTIMAL ->
            Continue([ImgBarrier EXCEPT !.dstAccessMask = VK_ACCESS_DEPTH_STENCIL_ATTACHMENT_READ_BIT])
      [] NewLayout = VK_IMAGE_LAYOUT_PRESENT_SRC_KHR ->
            Continue([ImgBarrier EXCEPT !.dstAccessMask = VK_ACCESS_MEMORY_READ_BIT])
      [] OTHER -> Unexpected(ImgBarrier)

\* Mutant: the stages are always derived from the access mask; the caller's
\* stage mask is ignored.
SelectStagesAlwaysDerived(Stages, AccessMask) ==
    [stages |-> PipelineStageFromAccessFlags(AccessMask), invoked |-> 1]

\* if (Stages == 0) Stages = PipelineStageFromAccessFlags(AccessMask);
\* the stage mask handed on, and whether the mapper was invoked for it.
SelectStages(Stages, AccessMask) ==
    IF Stages = 0
    THEN [stages |-> PipelineStageFromAccessFlags(AccessMask), invoked |-> 1]
    ELSE [stages |-> Stages, invoked |-> 0]

\* Mutant: the command is put in front of the commands recorded before.
vkCmdPipelineBarrierInFront(buffer, srcStageMask, dstStageMask, dependencyFlags, memoryBarrierCount, bufferMemoryBarrierCount, imageMemoryBarrierCount, pImageMemoryBarriers) ==
    <<[srcStageMask             |-> srcStageMask,
       dstStageMask             |-> dstStageMask,
       dependencyFlags          |-> dependencyFlags,
       memoryBarrierCount       |-> memoryBarrierCount,
       bufferMemoryBarrierCount |-> bufferMemoryBarrierCount,
       imageMemoryBarrierCount  |-> imageMemoryBarrierCount,
       pImageMemoryBarriers     |-> pImageMemoryBarriers]>> \o buffer

\* vkCmdPipelineBarrier: the command appended to the recording buffer.
vkCmdPipelineBarrier(buffer, srcStageMask, dstStageMask, dependencyFlags, memoryBarrierCount, bufferMemoryBarrierCount, imageMemoryBarrierCount, pImageMemoryBarriers) ==
    Append(buffer, [srcStageMask             |-> srcStageMask,
                    dstStageMask             |-> dstStageMask,
                    dependencyFlags          |-> dependencyFlags,
                    memoryBarrierCount       |-> memoryBarrierCount,
                    bufferMemoryBarrierCount |-> bufferMemoryBarrierCount,
                    imageMemoryBarrierCount  |-> imageMemoryBarrierCount,
                    pImageMemoryBarriers     |-> pImageMemoryBarriers])

\* The body of TransitionImageLayout run on the recording buffer `buffer`:
\* whether an assertion ended it, the buffer it leaves, and the number of
\* mapper invocations it made.  Where the assertions return, every call runs
\* on to vkCmdPipelineBarrier, whatever handle and layouts it was given.
RunTransition(buffer, CmdBuffer, Image, AspectMask, OldLayout, NewLayout, SubresRange, SrcStages, DestStages) ==
    LET Aborted(n) == [fatal |-> TRUE, buffer |-> buffer, invocations |-> n]
        AfterOld == OldLayoutSwitch(
                        InitialBarrier(Image, AspectMask, OldLayout, NewLayout, SubresRange),
                        OldLayout)
        AfterNew == NewLayoutSwitch(AfterOld.barrier, NewLayout)
        ImgBarrier == AfterNew.barrier
        Src == SelectStages(SrcStages, ImgBarrier.srcAccessMask)
        Dst == SelectStages(DestStages, ImgBarrier.dstAccessMask)
    IN  IF CmdBuffer = VK_NULL_HANDLE /\ build = FatalBuild THEN Aborted(0)
        ELSE IF AfterOld.fatal THEN Aborted(0)
        ELSE IF AfterNew.fatal THEN Aborted(0)
        ELSE IF Src.stages = ContractViolation THEN Aborted(Src.invoked)
        ELSE IF Dst.stages = ContractViolation THEN Aborted(Src.invoked + Dst.invoked)
        ELSE [fatal       |-> FALSE,
              buffer      |-> vkCmdPipelineBarrier(buffer, Src.stages, Dst.stages,
                                                   0, 0, 0, 1, <<ImgBarrier>>),
              invocations |-> Src.invoked + Dst.invoked]

TransitionImageLayout(CmdBuffer, Image, AspectMask, OldLayout, NewLayout, SubresRange, SrcStages, DestStages) ==
    /\ status = "recording"
    /\ LET r == RunTransition(cmds, CmdBuffer, Image, AspectMask, OldLayout, NewLayout,
                              SubresRange, SrcStages, DestStages)
       IN  /\ cmds' = r.buffer
           /\ status' = IF r.fatal THEN "aborted" ELSE status
           /\ mapperCalls' = r.invocations
    /\ calls' = Append(calls, [CmdBuffer   |-> CmdBuffer,
                               Image       |-> Image,
                               AspectMask  |-> AspectMask,
                               OldLayout   |-> OldLayout,
                               NewLayout   |-> NewLayout,
                               SubresRange |-> SubresRange,
                               SrcStages   |-> SrcStages,
                               DestStages  |-> DestStages])
    /\ lastOp' = "TransitionImageLayout"
    /\ UNCHANGED mapperVars
    /\ UNCHANGED build

(* FlushBarriers: an empty body *)

\* Mutant: the flush records a pipeline barrier that carries no barriers.
FlushBarriersRecords ==
    /\ status = "recording"
    /\ Len(cmds) < MaxSeq
    /\ lastOp' = "FlushBarriers"
    /\ cmds' = Append(cmds, [srcStageMask             |-> 0,
                             dstStageMask             |-> 0,
                             dependencyFlags          |-> 0,
                             memoryBarrierCount       |-> 0,
                             bufferMemoryBarrierCount |-> 0,
                             imageMemoryBarrierCount  |-> 0,
                             pImageMemoryBarriers     |-> <<>>])
    /\ UNCHANGED <<calls, status, mapperCalls>>
    /\ UNCHANGED mapperVars
    /\ UNCHANGED build

FlushBarriers ==
    /\ status = "recording"
    /\ lastOp' = "FlushBarriers"
    /\ UNCHANGED <<cmds, calls, status, mapperCalls>>
    /\ UNCHANGED mapperVars
    /\ UNCHANGED build

-----------------------------------------------------------------------------
(* The values the calls are made with *)

Layouts ==
    {VK_IMAGE_LAYOUT_UNDEFINED, VK_IMAGE_LAYOUT_GENERAL,
     VK_IMAGE_LAYOUT_COLOR_ATTACHMENT_OPTIMAL,
     VK_IMAGE_LAYOUT_DEPTH_STENCIL_ATTACHMENT_OPTIMAL,
     VK_IMAGE_LAYOUT_DEPTH_STENCIL_READ_ONLY_OPTIMAL,
     VK_IMAGE_LAYOUT_SHADER_READ_ONLY_OPTIMAL,
     VK_IMAGE_LAYOUT_TRANSFER_SRC_OPTIMAL, VK_IMAGE_LAYOUT_TRANSFER_DST_OPTIMAL,
     VK_IMAGE_LAYOUT_PREINITIALIZED,
     VK_IMAGE_LAYOUT_DEPTH_READ_ONLY_STENCIL_ATTACHMENT_OPTIMAL,
     VK_IMAGE_LAYOUT_DEPTH_ATTACHMENT_STENCIL_READ_ONLY_OPTIMAL,
     VK_IMAGE_LAYOUT_PRESENT_SRC_KHR, VK_IMAGE_LAYOUT_SHARED_PRESENT_KHR}

\* The layouts the calls with stage hints are made with: those neither switch
\* answers with UNEXPECTED.
HintedOldLayouts ==
    Layouts \ {VK_IMAGE_LAYOUT_GENERAL, VK_IMAGE_LAYOUT_SHARED_PRESENT_KHR}
HintedNewLayouts ==
    Layouts \ {VK_IMAGE_LAYOUT_UNDEFINED, VK_IMAGE_LAYOUT_GENERAL,
               VK_IMAGE_LAYOUT_PREINITIALIZED, VK_IMAGE_LAYOUT_SHARED_PRESENT_KHR}

SrcStageHints == {0, VK_PIPELINE_STAGE_TOP_OF_PIPE_BIT}
DestStageHints == {0, VK_PIPELINE_STAGE_BOTTOM_OF_PIPE_BIT}

ColorRange ==
    [aspectMask |-> VK_IMAGE_ASPECT_COLOR_BIT, baseMipLevel |-> 0, levelCount |-> 1,
     baseArrayLayer |-> 0, layerCount |-> 1]
DepthRange ==
    [aspectMask |-> VK_IMAGE_ASPECT_DEPTH_BIT, baseMipLevel |-> 1, levelCount |-> 2,
     baseArrayLayer |-> 0, layerCount |-> 1]

\* The sequence scenarios: a few layouts, every aspect and range.
SeqOldLayouts == {VK_IMAGE_LAYOUT_COLOR_ATTACHMENT_OPTIMAL, VK_IMAGE_LAYOUT_SHADER_READ_ONLY_OPTIMAL}
SeqNewLayouts == {VK_IMAGE_LAYOUT_DEPTH_STENCIL_READ_ONLY_OPTIMAL,
                  VK_IMAGE_LAYOUT_TRANSFER_DST_OPTIMAL}
AspectMasks == {VK_IMAGE_ASPECT_COLOR_BIT, VK_IMAGE_ASPECT_DEPTH_BIT}
SubresRanges == {ColorRange, DepthRange}

-----------------------------------------------------------------------------
(* Specifications of the emitter *)

InitEmitter ==
    /\ cmds = <<>>
    /\ calls = <<>>
    /\ status = "recording"
    /\ lastOp = "none"
    /\ mapperCalls = 0

InitMapperIdle ==
    /\ accA = 0 /\ accB = 0
    /\ stA = 0 /\ stB = 0 /\ stAB = 0
    /\ mphase = "idle"

\* Either build.
InitBuild == build \in AssertionBuilds

Init == InitBuild /\ InitEmitter /\ InitMapperIdle

\* The build of the specification only.
InitFatal == build = FatalBuild /\ InitEmitter /\ InitMapperIdle

\* Every pair of layouts without stage hints, and every pair of layouts that
\* meets the contract with a hint on one side or on both.
Next ==
    \/ \E OldLayout \in Layouts, NewLayout \in Layouts :
            /\ Len(calls) < MaxCmds
            /\ TransitionImageLayout(CmdBufferHandle, ImageHandle, VK_IMAGE_ASPECT_COLOR_BIT,
                                     OldLayout, NewLayout, ColorRange, 0, 0)
    \/ \E OldLayout \in HintedOldLayouts, NewLayout \in HintedNewLayouts,
          SrcStages \in SrcStageHints, DestStages \in DestStageHints :
            /\ Len(calls) < MaxCmds
            /\ SrcStages # 0 \/ DestStages # 0
            /\ TransitionImageLayout(CmdBufferHandle, ImageHandle, VK_IMAGE_ASPECT_COLOR_BIT,
                                     OldLayout, NewLayout, ColorRange, SrcStages, DestStages)
    \/ FlushBarriers

Spec == Init /\ [][Next]_vars

\* The same calls in the build the specification describes.
SpecFatal == InitFatal /\ [][Next]_vars

\* Sequences of calls on one command buffer: calls that meet the contract,
\* calls with a rejected new layout, and a call with the null handle.
NextSeq ==
    \/ \E AspectMask \in AspectMasks, OldLayout \in SeqOldLayouts,
          NewLayout \in SeqNewLayouts, SubresRange \in SubresRanges :
            /\ Len(calls) < MaxSeq
            /\ TransitionImageLayout(CmdBufferHandle, ImageHandle, AspectMask,
                                     OldLayout, NewLayout, SubresRange, 0, 0)
    \/ \E OldLayout \in SeqOldLayouts :
            /\ Len(calls) < MaxSeq
            /\ TransitionImageLayout(CmdBufferHandle, ImageHandle, VK_IMAGE_ASPECT_COLOR_BIT,
                                     OldLayout, VK_IMAGE_LAYOUT_GENERAL, ColorRange, 0, 0)
    \/ /\ Len(calls) < MaxSeq
       /\ TransitionImageLayout(VK_NULL_HANDLE, ImageHandle, VK_IMAGE_ASPECT_COLOR_BIT,
                                VK_IMAGE_LAYOUT_COLOR_ATTACHMENT_OPTIMAL,
                                VK_IMAGE_LAYOUT_TRANSFER_DST_OPTIMAL, ColorRange, 0, 0)
    \/ FlushBarriers

SpecSeq == Init /\ [][NextSeq]_vars

-----------------------------------------------------------------------------
(* Specification of the mapper on its own *)

AccessBits ==
    {VK_ACCESS_INDIRECT_COMMAND_READ_BIT, VK_ACCESS_INDEX_READ_BIT,
     VK_ACCESS_VERTEX_ATTRIBUTE_READ_BIT, VK_ACCESS_UNIFORM_READ_BIT,
     VK_ACCESS_INPUT_ATTACHMENT_READ_BIT, VK_ACCESS_SHADER_READ_BIT,
     VK_ACCESS_SHADER_WRITE_BIT, VK_ACCESS_COLOR_ATTACHMENT_READ_BIT,
     VK_ACCESS_COLOR_ATTACHMENT_WRITE_BIT, VK_ACCESS_DEPTH_STENCIL_ATTACHMENT_READ_BIT,
     VK_ACCESS_DEPTH_STENCIL_ATTACHMENT_WRITE_BIT, VK_ACCESS_TRANSFER_READ_BIT,
     VK_ACCESS_TRANSFER_WRITE_BIT, VK_ACCESS_HOST_READ_BIT, VK_ACCESS_HOST_WRITE_BIT,
     VK_ACCESS_MEMORY_READ_BIT, VK_ACCESS_MEMORY_WRITE_BIT}

\* Every mask of at most k bits, the unknown bit among them.
RECURSIVE AccessMasks(_)
AccessMasks(k) ==
    IF k = 0 THEN {0}
    ELSE {BitOr(m, b) : m \in AccessMasks(k - 1), b \in AccessBits \cup {0, UNKNOWN_ACCESS_BIT}}

InitMapper ==
    /\ InitBuild
    /\ InitEmitter
    /\ accA \in AccessMasks(MaxBitsA)
    /\ accB \in AccessMasks(MaxBitsB)
    /\ stA = 0 /\ stB = 0 /\ stAB = 0
    /\ mphase = "input"

MapAccess ==
    /\ mphase = "input"
    /\ stA' = PipelineStageFromAccessFlags(accA)
    /\ stB' = PipelineStageFromAccessFlags(accB)
    /\ stAB' = PipelineStageFromAccessFlags(BitOr(accA, accB))
    /\ mphase' = "done"
    /\ UNCHANGED <<accA, accB>>
    /\ UNCHANGED emitterVars
    /\ UNCHANGED build

NextMapper == MapAccess

SpecMapper == InitMapper /\ [][NextMapper]_vars

-----------------------------------------------------------------------------
(* Reading masks as sets *)

RECURSIVE BitsOf(_, _)
BitsOf(m, unit) ==
    IF m = 0 THEN {}
    ELSE (IF m % 2 = 1 THEN {unit} ELSE {}) \cup BitsOf(m \div 2, 2 * unit)

\* The set of single bits of a mask.
BitSet(m) == BitsOf(m, 1)

Recognized(m) == BitSet(m) \subseteq AccessBits

ShaderStages ==
    {VK_PIPELINE_STAGE_VERTEX_SHADER_BIT,
     VK_PIPELINE_STAGE_TESSELLATION_CONTROL_SHADER_BIT,
     VK_PIPELINE_STAGE_TESSELLATION_EVALUATION_SHADER_BIT,
     VK_PIPELINE_STAGE_GEOMETRY_SHADER_BIT,
     VK_PIPELINE_STAGE_FRAGMENT_SHADER_BIT,
     VK_PIPELINE_STAGE_COMPUTE_SHADER_BIT}

FragmentTests ==
    {VK_PIPELINE_STAGE_EARLY_FRAGMENT_TESTS_BIT, VK_PIPELINE_STAGE_LATE_FRAGMENT_TESTS_BIT}

\* The table of stages per access kind, as the specification gives it.
TableStages(kind) ==
    CASE kind = VK_ACCESS_INDIRECT_COMMAND_READ_BIT -> {VK_PIPELINE_STAGE_DRAW_INDIRECT_BIT}
      [] kind \in {VK_ACCESS_INDEX_READ_BIT, VK_ACCESS_VERTEX_ATTRIBUTE_READ_BIT} ->
            {VK_PIPELINE_STAGE_VERTEX_INPUT_BIT}
      [] kind \in {VK_ACCESS_UNIFORM_READ_BIT, VK_ACCESS_SHADER_READ_BIT,
                   VK_ACCESS_SHADER_WRITE_BIT} -> ShaderStages
      [] kind = VK_ACCESS_INPUT_ATTACHMENT_READ_BIT -> {VK_PIPELINE_STAGE_FRAGMENT_SHADER_BIT}
      [] kind \in {VK_ACCESS_COLOR_ATTACHMENT_READ_BIT, VK_ACCESS_COLOR_ATTACHMENT_WRITE_BIT} ->
            {VK_PIPELINE_STAGE_COLOR_ATTACHMENT_OUTPUT_BIT}
      [] kind \in {VK_ACCESS_DEPTH_STENCIL_ATTACHMENT_READ_BIT,
                   VK_ACCESS_DEPTH_STENCIL_ATTACHMENT_WRITE_BIT} -> FragmentTests
      [] kind \in {VK_ACCESS_TRANSFER_READ_BIT, VK_ACCESS_TRANSFER_WRITE_BIT} ->
            {VK_PIPELINE_STAGE_TRANSFER_BIT}
      [] kind \in {VK_ACCESS_HOST_READ_BIT, VK_ACCESS_HOST_WRITE_BIT} ->
            {VK_PIPELINE_STAGE_HOST_BIT}
      [] kind \in {VK_ACCESS_MEMORY_READ_BIT, VK_ACCESS_MEMORY_WRITE_BIT} -> {}

-----------------------------------------------------------------------------
(* Claims about PipelineStageFromAccessFlags *)

\* C1: for every single access kind the mapper returns exactly the stage set
\* of the table: indirect-command read -> draw-indirect; index and vertex
\* attribute read -> vertex-input; uniform read, shader read and shader write
\* -> the five graphics shader stages and compute; input-attachment read ->
\* fragment shader; color attachment read/write -> color-attachment-output;
\* depth/stencil attachment read/write -> early and late fragment tests;
\* transfer read/write -> transfer; host read/write -> host; memory read and
\* memory write -> no stage.
C1_SingleKindTable ==
    (mphase = "done" /\ accA \in AccessBits) =>
        /\ stA # ContractViolation
        /\ BitSet(stA) = TableStages(accA)

C1_Witness ==
    /\ mphase = "done"
    /\ accA = VK_ACCESS_UNIFORM_READ_BIT
    /\ stA = 2296

\* C2: over recognized access kinds the mapper is a union homomorphism: the
\* stages of A | B are the union of the stages of A and of B, the stages of a
\* mask are the union of the stages of its single kinds whatever the order
\* they are visited in, and the empty mask gives the empty stage mask.
C2_UnionHomomorphism ==
    (mphase = "done" /\ Recognized(accA) /\ Recognized(accB)) =>
        /\ stA # ContractViolation /\ stB # ContractViolation /\ stAB # ContractViolation
        /\ BitSet(stAB) = BitSet(stA) \cup BitSet(stB)
        /\ BitSet(stA) =
              UNION {BitSet(PipelineStageFromAccessFlags(kind)) : kind \in BitSet(accA)}
        /\ (accA = 0 => stA = 0)
        /\ (accA = 0 /\ accB = 0 => stAB = 0)

C2_Witness ==
    /\ mphase = "done"
    /\ accA = VK_ACCESS_SHADER_READ_BIT + VK_ACCESS_TRANSFER_WRITE_BIT
    /\ accB = VK_ACCESS_HOST_WRITE_BIT
    /\ stAB = 2296 + VK_PIPELINE_STAGE_TRANSFER_BIT + VK_PIPELINE_STAGE_HOST_BIT

-----------------------------------------------------------------------------
(* Claims about TransitionImageLayout and FlushBarriers *)

\* The image barrier of the i-th recorded command.
BarrierOf(i) == cmds[i].pImageMemoryBarriers[1]

\* A fatal assertion ends the run and a returning one lets the call record, so
\* the i-th recorded command is the one the i-th call recorded.
Recorded == 1..Len(cmds)

\* The layouts the specification supports on each side.
SupportedOldLayouts == HintedOldLayouts
SupportedNewLayouts == HintedNewLayouts

\* A call that meets the contract: a valid handle and a supported layout pair.
MeetsContract(c) ==
    /\ c.CmdBuffer # VK_NULL_HANDLE
    /\ c.OldLayout \in SupportedOldLayouts
    /\ c.NewLayout \in SupportedNewLayouts

\* C3: over supported layout pairs the source access mask of a recorded
\* barrier depends on oldLayout alone and the destination access mask on
\* newLayout alone: two recorded barriers with the same oldLayout have the same
\* source access mask, and two with the same newLayout have the same
\* destination access mask.
C3_AccessDependsOnOwnLayout ==
    \A i \in Recorded, j \in Recorded :
        (MeetsContract(calls[i]) /\ MeetsContract(calls[j])) =>
            /\ BarrierOf(i).oldLayout = BarrierOf(j).oldLayout
                  => BarrierOf(i).srcAccessMask = BarrierOf(j).srcAccessMask
            /\ BarrierOf(i).newLayout = BarrierOf(j).newLayout
                  => BarrierOf(i).dstAccessMask = BarrierOf(j).dstAccessMask

\* The layout pairs the claim C4 names.
RejectedPair(c) ==
    \/ c.NewLayout \in {VK_IMAGE_LAYOUT_UNDEFINED, VK_IMAGE_LAYOUT_PREINITIALIZED,
                        VK_IMAGE_LAYOUT_GENERAL}
    \/ c.OldLayout = VK_IMAGE_LAYOUT_GENERAL

\* C4: in the build the specification describes, where a contract violation
\* is fatal, a call whose newLayout is undefined, preinitialized or general, or
\* whose oldLayout is general, ends in the contract violation and records
\* nothing: it is the last call made, the run is aborted, and the buffer holds
\* only the commands of the calls before it.
C4_RejectedLayoutsRecordNothing ==
    \A i \in 1..Len(calls) :
        RejectedPair(calls[i]) =>
            /\ status = "aborted"
            /\ i = Len(calls)
            /\ Len(cmds) = i - 1

C4_Witness ==
    /\ build = FatalBuild
    /\ Len(calls) = 1
    /\ calls[1].OldLayout = VK_IMAGE_LAYOUT_COLOR_ATTACHMENT_OPTIMAL
    /\ calls[1].NewLayout = VK_IMAGE_LAYOUT_PREINITIALIZED
    /\ status = "aborted"
    /\ cmds = <<>>

\* The mapper invocations a call with these hints is to make.
ExpectedInvocations(c) ==
    (IF c.SrcStages = 0 THEN 1 ELSE 0) + (IF c.DestStages = 0 THEN 1 ELSE 0)

\* C5: on each side, a non-empty stage hint is recorded as given and the
\* mapper is not invoked for that side (no invocation at all when both hints
\* are given); an empty hint is replaced by the mapper's stages for that side's
\* access mask.  Shader-read-only -> transfer-destination gives the graphics
\* shader stages and compute -> transfer; preinitialized -> transfer-source
\* gives host -> transfer.
C5_StageSelection ==
    /\ \A i \in Recorded :
          LET c == calls[i]
              k == cmds[i]
          IN  /\ c.SrcStages # 0 => k.srcStageMask = c.SrcStages
              /\ c.DestStages # 0 => k.dstStageMask = c.DestStages
              /\ c.SrcStages = 0 =>
                    k.srcStageMask = PipelineStageFromAccessFlags(BarrierOf(i).srcAccessMask)
              /\ c.DestStages = 0 =>
                    k.dstStageMask = PipelineStageFromAccessFlags(BarrierOf(i).dstAccessMask)
              /\ (/\ c.SrcStages = 0 /\ c.DestStages = 0
                  /\ c.OldLayout = VK_IMAGE_LAYOUT_SHADER_READ_ONLY_OPTIMAL
                  /\ c.NewLayout = VK_IMAGE_LAYOUT_TRANSFER_DST_OPTIMAL)
                    => /\ BitSet(k.srcStageMask) = ShaderStages
                       /\ BitSet(k.dstStageMask) = {VK_PIPELINE_STAGE_TRANSFER_BIT}
              /\ (/\ c.SrcStages = 0 /\ c.DestStages = 0
                  /\ c.OldLayout = VK_IMAGE_LAYOUT_PREINITIALIZED
                  /\ c.NewLayout = VK_IMAGE_LAYOUT_TRANSFER_SRC_OPTIMAL)
                    => /\ BitSet(k.srcStageMask) = {VK_PIPELINE_STAGE_HOST_BIT}
                       /\ BitSet(k.dstStageMask) = {VK_PIPELINE_STAGE_TRANSFER_BIT}
    /\ (Len(calls) > 0 /\ Len(cmds) = Len(calls))
          => mapperCalls = ExpectedInvocations(calls[Len(calls)])

C5_Witness ==
    /\ Len(cmds) = 1 /\ Len(calls) = 1
    /\ calls[1].SrcStages = VK_PIPELINE_STAGE_TOP_OF_PIPE_BIT
    /\ calls[1].DestStages = VK_PIPELINE_STAGE_BOTTOM_OF_PIPE_BIT
    /\ calls[1].OldLayout = VK_IMAGE_LAYOUT_SHADER_READ_ONLY_OPTIMAL
    /\ cmds[1].srcStageMask = VK_PIPELINE_STAGE_TOP_OF_PIPE_BIT
    /\ cmds[1].dstStageMask = VK_PIPELINE_STAGE_BOTTOM_OF_PIPE_BIT
    /\ mapperCalls = 0

\* The command a successful call records, as far as C6 describes it.
OneImageBarrierFor(k, c) ==
    /\ k.imageMemoryBarrierCount = 1
    /\ Len(k.pImageMemoryBarriers) = 1
    /\ k.memoryBarrierCount = 0
    /\ k.bufferMemoryBarrierCount = 0
    /\ k.pImageMemoryBarriers[1].srcQueueFamilyIndex = VK_QUEUE_FAMILY_IGNORED
    /\ k.pImageMemoryBarriers[1].dstQueueFamilyIndex = VK_QUEUE_FAMILY_IGNORED
    /\ k.pImageMemoryBarriers[1].oldLayout = c.OldLayout
    /\ k.pImageMemoryBarriers[1].newLayout = c.NewLayout
    /\ k.pImageMemoryBarriers[1].image = c.Image
    /\ k.pImageMemoryBarriers[1].subresourceRange = c.SubresRange

\* C6: after n calls that all meet the contract the buffer holds n pipeline
\* barriers, the i-th recorded by the i-th call, each with one image barrier,
\* no memory and no buffer barrier and both queue families ignored; such a
\* call appends its command after the commands already recorded, no step
\* changes a command already recorded, and a step that is no call leaves the
\* buffer as it is.
C6_OneBarrierPerCallInOrder ==
    /\ []((\A i \in 1..Len(calls) : MeetsContract(calls[i])) =>
              /\ Len(cmds) = Len(calls)
              /\ \A i \in Recorded : OneImageBarrierFor(cmds[i], calls[i]))
    /\ [][/\ Len(cmds') >= Len(cmds)
          /\ SubSeq(cmds', 1, Len(cmds)) = cmds
          /\ Len(calls') = Len(calls) => cmds' = cmds
          /\ (Len(calls') = Len(calls) + 1 /\ MeetsContract(calls'[Len(calls')])) =>
                /\ Len(cmds') = Len(cmds) + 1
                /\ OneImageBarrierFor(cmds'[Len(cmds')], calls'[Len(calls')])]_vars

C6_Witness ==
    /\ Len(cmds) = 3 /\ Len(calls) = 3
    /\ \A i \in 1..3 : MeetsContract(calls[i])
    /\ BarrierOf(1).newLayout = VK_IMAGE_LAYOUT_TRANSFER_DST_OPTIMAL
    /\ BarrierOf(2).newLayout = VK_IMAGE_LAYOUT_DEPTH_STENCIL_READ_ONLY_OPTIMAL
    /\ BarrierOf(3).oldLayout = VK_IMAGE_LAYOUT_SHADER_READ_ONLY_OPTIMAL
    /\ BarrierOf(1).oldLayout = VK_IMAGE_LAYOUT_COLOR_ATTACHMENT_OPTIMAL

DepthStencilReadOnlyLayouts ==
    {VK_IMAGE_LAYOUT_DEPTH_STENCIL_READ_ONLY_OPTIMAL,
     VK_IMAGE_LAYOUT_DEPTH_READ_ONLY_STENCIL_ATTACHMENT_OPTIMAL,
     VK_IMAGE_LAYOUT_DEPTH_ATTACHMENT_STENCIL_READ_ONLY_OPTIMAL}

\* C7: a barrier recorded with one of the three depth/stencil read-only
\* layouts as newLayout has exactly depth/stencil-attachment read as its
\* destination access mask.
C7_ReadOnlyDestinationIsPureRead ==
    \A i \in Recorded :
        (MeetsContract(calls[i]) /\ BarrierOf(i).newLayout \in DepthStencilReadOnlyLayouts)
            => BarrierOf(i).dstAccessMask = VK_ACCESS_DEPTH_STENCIL_ATTACHMENT_READ_BIT

\* C8: FlushBarriers records nothing and raises no error: a step that ends with
\* FlushBarriers as the last operation leaves the recording buffer, the calls
\* made and the status as they were, however many flushes follow one another.
C8_FlushIsNoOp ==
    [][lastOp' = "FlushBarriers" =>
          /\ cmds' = cmds
          /\ status' = status
          /\ calls' = calls]_vars

C8_Witness ==
    /\ lastOp = "FlushBarriers"
    /\ Len(cmds) = 1
    /\ status = "recording"

\* The stages able to perform an access kind: those of the table, and every
\* stage for the two generic memory accesses.
AllStages ==
    {VK_PIPELINE_STAGE_TOP_OF_PIPE_BIT, VK_PIPELINE_STAGE_DRAW_INDIRECT_BIT,
     VK_PIPELINE_STAGE_VERTEX_INPUT_BIT, VK_PIPELINE_STAGE_COLOR_ATTACHMENT_OUTPUT_BIT,
     VK_PIPELINE_STAGE_TRANSFER_BIT, VK_PIPELINE_STAGE_BOTTOM_OF_PIPE_BIT,
     VK_PIPELINE_STAGE_HOST_BIT} \cup ShaderStages \cup FragmentTests

CapableStages(kind) ==
    IF kind \in {VK_ACCESS_MEMORY_READ_BIT, VK_ACCESS_MEMORY_WRITE_BIT}
    THEN AllStages
    ELSE TableStages(kind)

\* C9: for a supported layout pair with both stage hints empty, every access
\* kind of the source access mask of a recorded barrier has a stage able to
\* perform it in the source stage mask, and likewise on the destination side.
C9_AccessHasCapableStage ==
    \A i \in Recorded :
        (MeetsContract(calls[i]) /\ calls[i].SrcStages = 0 /\ calls[i].DestStages = 0) =>
            /\ \A kind \in BitSet(BarrierOf(i).srcAccessMask) :
                  CapableStages(kind) \cap BitSet(cmds[i].srcStageMask) # {}
            /\ \A kind \in BitSet(BarrierOf(i).dstAccessMask) :
                  CapableStages(kind) \cap BitSet(cmds[i].dstStageMask) # {}

\* C10: the subresource range of a recorded barrier is the caller's SubresRange,
\* aspect mask included, and AspectMask has no effect: two calls that differ
\* in nothing but AspectMask record the same command.
C10_AspectMaskIgnored ==
    /\ \A i \in Recorded : BarrierOf(i).subresourceRange = calls[i].SubresRange
    /\ \A i \in Recorded, j \in Recorded :
          [calls[i] EXCEPT !.AspectMask = calls[j].AspectMask] = calls[j]
              => cmds[i] = cmds[j]

C10_Witness ==
    /\ Len(cmds) >= 2
    /\ calls[1].AspectMask = VK_IMAGE_ASPECT_DEPTH_BIT
    /\ calls[2].AspectMask = VK_IMAGE_ASPECT_COLOR_BIT
    /\ [calls[1] EXCEPT !.AspectMask = VK_IMAGE_ASPECT_COLOR_BIT] = calls[2]
    /\ calls[1].SubresRange = ColorRange
    /\ BarrierOf(1).subresourceRange.aspectMask = VK_IMAGE_ASPECT_COLOR_BIT
    /\ cmds[1] = cmds[2]

====
